---- MODULE Spec2Model ----
(***************************************************************************)
(* Ledger engine of bookkeeper (backend/services.py, BookkeepingService).  *)
(*                                                                         *)
(* The store is modelled as its tables: accounts, transactions and         *)
(* journal_entries.  Monetary amounts are integers counting thousandths,   *)
(* so Decimal('0.01') is 10; a request may carry any amount, a             *)
(* Numeric(15, 2) column (backend/models.py) holds it at two decimal       *)
(* places.  Every service method is one action; a method works on the      *)
(* session (the pending copy of the tables) and ends in commit or          *)
(* rollback.                                                               *)
(***************************************************************************)
EXTENDS Integers, Sequences, FiniteSets, TLC

VARIABLES categories, category_count, accounts, account_count, transactions,
          txn_count, journal_entries, import_sources, source_count, staged,
          staged_count, today, last, writer, seen, processing, answer

vars == <<categories, category_count, accounts, account_count, transactions,
          txn_count, journal_entries, import_sources, source_count, staged,
          staged_count, today, last, writer, seen, processing,
          answer>>

\* The tables of the import staging area.
staging == <<import_sources, source_count, staged, staged_count>>

\* The sessions in flight: a write to the journal between its first
\* statement and its commit, what a reader's query returned, and the
\* process_staged_transaction calls under way, and the answer of the last
\* balance or report query.
sessions == <<writer, seen, processing, answer>>

(***************************************************************************)
(* Bounds of the model.                                                    *)
(***************************************************************************)
MaxAccounts == 2
MaxTxns == 2
MaxEntries == 3
MaxAmount == 2
MaxDate == 2
MaxCategories == 2
MaxSources == 1
MaxStaged == 2
MaxSessions == 2

(***************************************************************************)
(* Values.                                                                 *)
(***************************************************************************)
NoAccount == 0
NoCategory == 0
NoTxn == 0
NoDate == 0
NoReference == [date |-> 0, number |-> 0]
AccountIds == 1..MaxAccounts
CategoryIds == 1..MaxCategories
TxnIds == 1..MaxTxns
SourceIds == 1..MaxSources
StagedIds == 1..MaxStaged
StagedIdLists == UNION {[1..k -> StagedIds] : k \in 0..MaxStaged}
ImportStatus == {"pending", "processed", "error"}
Dates == 1..MaxDate
Cent == 10
Amounts == {Cent * a : a \in (0 - 1)..MaxAmount}
Descriptions == {"", "Sale"}

AccountType == {"asset", "liability", "equity", "income", "expense"}

TransactionStatus == {"pending", "completed", "void"}

Abs(x) == IF x < 0 THEN 0 - x ELSE x

Tolerance == 10

\* A value as a Numeric(15, 2) column gives it back: the nearest hundredth.
\* No request of the specifications below has an amount halfway between two.
to_numeric(amount) == ((amount + 5) \div Cent) * Cent

RECURSIVE SumDebits(_)
SumDebits(rows) ==
    IF rows = <<>> THEN 0 ELSE Head(rows).debit_amount + SumDebits(Tail(rows))

RECURSIVE SumCredits(_)
SumCredits(rows) ==
    IF rows = <<>> THEN 0 ELSE Head(rows).credit_amount + SumCredits(Tail(rows))

(***************************************************************************)
(* The session.  A method mutates a pending copy of the tables; commit     *)
(* makes the pending copy the stored one, rollback discards it.            *)
(***************************************************************************)
Tables(t, c, j) == [transactions |-> t, txn_count |-> c, journal_entries |-> j]

commit(stored, session) == session

rollback_as_commit(stored, session) == session

rollback(stored, session) == stored

(***************************************************************************)
(* Account registry.                                                       *)
(***************************************************************************)
create_account_category(cats, count, category_data) ==
    [ok |-> TRUE, error |-> "", id |-> count + 1, blocking |-> {},
     categories |-> cats @@ ((count + 1) :> category_data),
     category_count |-> count + 1]

update_account_category(cats, category_id, category_data) ==
    IF category_id \notin DOMAIN cats
    THEN [ok |-> FALSE, found |-> FALSE, error |-> "", categories |-> cats]
    ELSE [ok |-> TRUE, found |-> TRUE, error |-> "",
          categories |-> [cats EXCEPT ![category_id] = category_data]]

\* db_category.accounts: the accounts whose category_id names the category.
accounts_of_category(accts, category_id) ==
    {a \in DOMAIN accts : accts[a].category_id = category_id}

delete_account_category_unchecked(cats, accts, category_id) ==
    IF category_id \notin DOMAIN cats
    THEN [ok |-> FALSE, error |-> "category not found", blocking |-> {},
          categories |-> cats]
    ELSE [ok |-> TRUE, error |-> "", blocking |-> {},
          categories |-> [c \in DOMAIN cats \ {category_id} |-> cats[c]]]

\* The error message lists the name and code of each account of the
\* category; blocking holds the accounts it lists.
delete_account_category(cats, accts, category_id) ==
    IF category_id \notin DOMAIN cats
    THEN [ok |-> FALSE, error |-> "category not found", blocking |-> {},
          categories |-> cats]
    ELSE IF accounts_of_category(accts, category_id) # {}
    THEN [ok |-> FALSE, error |-> "category has associated accounts",
          blocking |-> accounts_of_category(accts, category_id),
          categories |-> cats]
    ELSE [ok |-> TRUE, error |-> "", blocking |-> {},
          categories |-> [c \in DOMAIN cats \ {category_id} |-> cats[c]]]

type_prefix(account_type) ==
    CASE account_type = "asset" -> "A"
      [] account_type = "liability" -> "L"
      [] account_type = "equity" -> "E"
      [] account_type = "income" -> "R"
      [] account_type = "expense" -> "X"

\* The decimal digits of a number, most significant first.
RECURSIVE decimal(_)
decimal(n) == IF n < 10 THEN <<n>> ELSE Append(decimal(n \div 10), n % 10)

\* f"{n:03d}": the digits of n, filled with zeros on the left up to three.
PadWidth == 3
zero_padded(n) ==
    LET digits == decimal(n)
    IN  IF Len(digits) >= PadWidth THEN digits
        ELSE [i \in 1..(PadWidth - Len(digits)) |-> 0] \o digits

\* s < t as strings of digits: the order of ORDER BY on the code column.
RECURSIVE string_less(_, _)
string_less(s, t) ==
    IF t = <<>> THEN FALSE
    ELSE IF s = <<>> THEN TRUE
    ELSE IF Head(s) # Head(t) THEN Head(s) < Head(t)
    ELSE string_less(Tail(s), Tail(t))

\* order_by(code.desc()).first() over the accounts with this prefix and an
\* id from lo to hi: the account whose code is the greatest string,
\* NoAccount when there is none.  The range is searched by halves.
RECURSIVE latest_account(_, _, _, _)
latest_account(accts, prefix, lo, hi) ==
    IF lo > hi THEN NoAccount
    ELSE IF lo = hi
    THEN IF lo \in DOMAIN accts /\ accts[lo].code.prefix = prefix THEN lo ELSE NoAccount
    ELSE LET mid == (lo + hi) \div 2
             low == latest_account(accts, prefix, lo, mid)
             high == latest_account(accts, prefix, mid + 1, hi)
         IN  IF low = NoAccount THEN high
             ELSE IF high = NoAccount THEN low
             ELSE IF string_less(zero_padded(accts[low].code.number),
                                 zero_padded(accts[high].code.number)) THEN high
             ELSE low

\* A code "<prefix>-<NNN>" is kept as its prefix and the number NNN prints;
\* count is the highest account id given out so far.
generate_account_code(accts, count, account_type) ==
    LET prefix == type_prefix(account_type)
        latest == latest_account(accts, prefix, 1, count)
    IN  [prefix |-> prefix,
         number |-> IF latest = NoAccount THEN 1 ELSE accts[latest].code.number + 1]

create_account(cats, accts, count, account_data) ==
    IF account_data.category_id # NoCategory /\ account_data.category_id \notin DOMAIN cats
    THEN [ok |-> FALSE, error |-> "category not found", id |-> NoAccount,
          accounts |-> accts, account_count |-> count]
    ELSE LET id == count + 1
             code == generate_account_code(accts, count, account_data.type)
             row == [category_id |-> account_data.category_id,
                     name |-> account_data.name,
                     type |-> account_data.type,
                     code |-> code,
                     description |-> account_data.description,
                     is_active |-> account_data.is_active]
         IN  IF \E a \in DOMAIN accts : accts[a].code = code
             THEN \* the unique constraint on accounts.code refuses the insert
                  [ok |-> FALSE, error |-> "code not unique", id |-> NoAccount,
                   accounts |-> accts, account_count |-> count]
             ELSE [ok |-> TRUE, error |-> "", id |-> id,
                   accounts |-> accts @@ (id :> row), account_count |-> id]

update_account_with_type(cats, accts, account_id, account_data) ==
    IF account_id \notin DOMAIN accts
    THEN [ok |-> FALSE, found |-> FALSE, error |-> "", accounts |-> accts]
    ELSE IF account_data.category_id # NoCategory /\ account_data.category_id \notin DOMAIN cats
    THEN [ok |-> FALSE, found |-> TRUE, error |-> "category not found", accounts |-> accts]
    ELSE [ok |-> TRUE, found |-> TRUE, error |-> "",
          accounts |-> [accts EXCEPT ![account_id] =
                           [category_id |-> account_data.category_id,
                            name |-> account_data.name,
                            type |-> account_data.type,
                            code |-> @.code,
                            description |-> account_data.description,
                            is_active |-> account_data.is_active]]]

update_account(cats, accts, account_id, account_data) ==
    IF account_id \notin DOMAIN accts
    THEN [ok |-> FALSE, found |-> FALSE, error |-> "", accounts |-> accts]
    ELSE IF account_data.category_id # NoCategory /\ account_data.category_id \notin DOMAIN cats
    THEN [ok |-> FALSE, found |-> TRUE, error |-> "category not found", accounts |-> accts]
    ELSE IF account_data.type # accts[account_id].type
    THEN [ok |-> FALSE, found |-> TRUE, error |-> "cannot change account type",
          accounts |-> accts]
    ELSE [ok |-> TRUE, found |-> TRUE, error |-> "",
          accounts |-> [accts EXCEPT ![account_id] =
                           [category_id |-> account_data.category_id,
                            name |-> account_data.name,
                            type |-> @.type,
                            code |-> @.code,
                            description |-> account_data.description,
                            is_active |-> account_data.is_active]]]

\* delete_account without its look at the account's journal entries.
delete_account_with_entries(accts, entries, account_id) ==
    IF account_id \notin DOMAIN accts
    THEN [ok |-> FALSE, error |-> "", accounts |-> accts]
    ELSE [ok |-> TRUE, error |-> "",
          accounts |-> [a \in DOMAIN accts \ {account_id} |-> accts[a]]]

delete_account(accts, entries, account_id) ==
    IF account_id \notin DOMAIN accts
    THEN [ok |-> FALSE, error |-> "", accounts |-> accts]
    ELSE IF \E i \in 1..Len(entries) : entries[i].account_id = account_id
    THEN [ok |-> FALSE, error |-> "has journal entries", accounts |-> accts]
    ELSE [ok |-> TRUE, error |-> "",
          accounts |-> [a \in DOMAIN accts \ {account_id} |-> accts[a]]]

(***************************************************************************)
(* Transaction poster.                                                     *)
(***************************************************************************)
\* A reference "TXN-<YYYYMMDD>-<NNN>" is kept as its date and the number NNN
\* prints.  now is the day datetime.now() falls on; the latest reference of
\* that day is the greatest as a string, as ORDER BY reference_number DESC
\* reads it.
generate_transaction_reference(txns, now) ==
    LET of_today == {t \in DOMAIN txns : txns[t].reference_number.date = now}
        latest == CHOOSE t \in of_today : \A u \in of_today :
                      ~string_less(zero_padded(txns[t].reference_number.number),
                                   zero_padded(txns[u].reference_number.number))
    IN  [date |-> now,
         number |-> IF of_today = {} THEN 1
                    ELSE txns[latest].reference_number.number + 1]

is_empty_entry(entry) ==
    entry.account_id = NoAccount \/ (entry.debit_amount = 0 /\ entry.credit_amount = 0)

unbalanced_above_tolerance(total_debits, total_credits) ==
    Abs(total_debits - total_credits) > Tolerance

unbalanced(total_debits, total_credits) ==
    Abs(total_debits - total_credits) >= Tolerance

\* The loop over transaction_data.entries; st is the loop's local state.
RECURSIVE validate_entries(_, _, _)
validate_entries(accts, entries, st) ==
    IF entries = <<>> \/ st.error # "" THEN st
    ELSE LET entry == Head(entries)
             rest == Tail(entries)
         IN  IF is_empty_entry(entry)
             THEN validate_entries(accts, rest, st)
             ELSE IF entry.account_id \notin DOMAIN accts
             THEN [st EXCEPT !.error = "account not found"]
             ELSE IF entry.account_id \in st.used_accounts
             THEN [st EXCEPT !.error = "account used multiple times"]
             ELSE IF entry.debit_amount < 0 \/ entry.credit_amount < 0
             THEN [st EXCEPT !.error = "negative amounts"]
             ELSE IF entry.debit_amount > 0 /\ entry.credit_amount > 0
             THEN [st EXCEPT !.error = "both debited and credited"]
             ELSE validate_entries(accts, rest,
                    [st EXCEPT !.used_accounts = @ \cup {entry.account_id},
                               !.total_debits = @ + entry.debit_amount,
                               !.total_credits = @ + entry.credit_amount,
                               !.valid_entries = Append(@, entry)])

JournalRows(transaction_id, entries) ==
    [i \in 1..Len(entries) |->
        [transaction_id |-> transaction_id,
         account_id |-> entries[i].account_id,
         debit_amount |-> to_numeric(entries[i].debit_amount),
         credit_amount |-> to_numeric(entries[i].credit_amount)]]

Failed(stored, message) ==
    [ok |-> FALSE, found |-> TRUE, error |-> message, id |-> NoTxn, tables |-> stored]

NotFound(stored) ==
    [ok |-> FALSE, found |-> FALSE, error |-> "", id |-> NoTxn, tables |-> stored]

Done(id, tables) ==
    [ok |-> TRUE, found |-> TRUE, error |-> "", id |-> id, tables |-> tables]

\* A create_transaction that had flushed the header before it validated and
\* did not roll back.
create_failed_header_kept(stored, transaction_data, message) ==
    Failed(Tables(stored.transactions @@
                     ((stored.txn_count + 1) :>
                        [transaction_date |-> transaction_data.transaction_date,
                         description |-> transaction_data.description,
                         status |-> "completed",
                         reference_number |-> NoReference]),
                  stored.txn_count + 1, stored.journal_entries),
           message)

\* The except branch: nothing was added before the error, and the session
\* is rolled back.
create_failed(stored, transaction_data, message) ==
    Failed(rollback(stored, stored), message)

create_transaction(accts, stored, now, transaction_data) ==
    IF transaction_data.entries = <<>>
    THEN create_failed(stored, transaction_data, "no journal entries")
    ELSE IF transaction_data.description = ""
    THEN create_failed(stored, transaction_data, "description is required")
    ELSE IF transaction_data.transaction_date = NoDate
    THEN create_failed(stored, transaction_data, "date is required")
    ELSE
    LET st == validate_entries(accts, transaction_data.entries,
                  [valid_entries |-> <<>>, used_accounts |-> {},
                   total_debits |-> 0, total_credits |-> 0, error |-> ""])
    IN  IF st.error # ""
        THEN create_failed(stored, transaction_data, st.error)
        ELSE IF Len(st.valid_entries) < 2
        THEN create_failed(stored, transaction_data, "at least two valid entries")
        ELSE IF unbalanced(st.total_debits, st.total_credits)
        THEN create_failed(stored, transaction_data, "debits must equal credits")
        ELSE
        LET id == stored.txn_count + 1
            transaction == [transaction_date |-> transaction_data.transaction_date,
                            description |-> transaction_data.description,
                            status |-> "completed",
                            reference_number |->
                                generate_transaction_reference(stored.transactions, now)]
            session == Tables(stored.transactions @@ (id :> transaction), id,
                              stored.journal_entries \o JournalRows(id, st.valid_entries))
        IN  Done(id, commit(stored, session))

RowsOf(entries, transaction_id) ==
    SelectSeq(entries, LAMBDA row : row.transaction_id = transaction_id)

RowsNotOf(entries, transaction_id) ==
    SelectSeq(entries, LAMBDA row : row.transaction_id # transaction_id)

\* The loop over transaction_data.entries of update_transaction.
RECURSIVE add_entries(_, _, _)
add_entries(accts, entries, st) ==
    IF entries = <<>> \/ st.error # "" THEN st
    ELSE LET entry == Head(entries)
         IN  IF entry.account_id \notin DOMAIN accts
             THEN [st EXCEPT !.error = "account not found"]
             ELSE add_entries(accts, Tail(entries),
                    [st EXCEPT !.added = Append(@, entry),
                               !.total_debits = @ + entry.debit_amount,
                               !.total_credits = @ + entry.credit_amount])

update_transaction(accts, stored, transaction_id, transaction_data) ==
    IF transaction_id \notin DOMAIN stored.transactions
    THEN NotFound(stored)
    ELSE
    LET db_transaction == [transaction_date |-> transaction_data.transaction_date,
                           description |-> transaction_data.description,
                           reference_number |-> transaction_data.reference_number,
                           status |-> transaction_data.status]
        st == add_entries(accts, transaction_data.entries,
                  [added |-> <<>>, total_debits |-> 0, total_credits |-> 0,
                   error |-> ""])
        session == Tables([stored.transactions EXCEPT ![transaction_id] = db_transaction],
                          stored.txn_count,
                          RowsNotOf(stored.journal_entries, transaction_id)
                              \o JournalRows(transaction_id, st.added))
    IN  IF st.error # ""
        THEN Failed(rollback(stored, session), st.error)
        ELSE IF st.total_debits # st.total_credits
        THEN Failed(rollback(stored, session), "debits must equal credits")
        ELSE Done(transaction_id, commit(stored, session))

delete_transaction_header_only(stored, transaction_id) ==
    IF transaction_id \notin DOMAIN stored.transactions
    THEN NotFound(stored)
    ELSE Done(transaction_id,
              Tables([t \in DOMAIN stored.transactions \ {transaction_id} |->
                         stored.transactions[t]],
                     stored.txn_count, stored.journal_entries))

delete_transaction(stored, transaction_id) ==
    IF transaction_id \notin DOMAIN stored.transactions
    THEN NotFound(stored)
    ELSE LET session ==
                 Tables([t \in DOMAIN stored.transactions \ {transaction_id} |->
                            stored.transactions[t]],
                        stored.txn_count,
                        RowsNotOf(stored.journal_entries, transaction_id))
         IN  Done(transaction_id, commit(stored, session))

(***************************************************************************)
(* Journal entries.  A row is identified by its position in the table.     *)
(***************************************************************************)
update_journal_entry(accts, stored, entry_id, entry_data) ==
    IF entry_id \notin 1..Len(stored.journal_entries)
    THEN NotFound(stored)
    ELSE IF entry_data.account_id \notin DOMAIN accts
    THEN Failed(stored, "account not found")
    ELSE LET session ==
                 Tables(stored.transactions, stored.txn_count,
                        [stored.journal_entries EXCEPT
                            ![entry_id].account_id = entry_data.account_id,
                            ![entry_id].debit_amount = to_numeric(entry_data.debit_amount),
                            ![entry_id].credit_amount = to_numeric(entry_data.credit_amount)])
         IN  Done(entry_id, commit(stored, session))

RemoveAt(rows, i) == SubSeq(rows, 1, i - 1) \o SubSeq(rows, i + 1, Len(rows))

delete_journal_entry(stored, entry_id) ==
    IF entry_id \notin 1..Len(stored.journal_entries)
    THEN NotFound(stored)
    ELSE LET db_entry == stored.journal_entries[entry_id]
             others == RowsOf(RemoveAt(stored.journal_entries, entry_id),
                              db_entry.transaction_id)
         IN  IF SumDebits(others) # SumCredits(others)
             THEN Failed(stored, "would unbalance the transaction")
             ELSE Done(entry_id,
                       commit(stored, Tables(stored.transactions, stored.txn_count,
                                             RemoveAt(stored.journal_entries, entry_id))))

(***************************************************************************)
(* Balance calculator and report generator.                                *)
(***************************************************************************)
get_account_balance_of_all_dates(stored, account_id, as_of) ==
    LET rows == SelectSeq(stored.journal_entries,
                   LAMBDA row : row.account_id = account_id)
    IN  SumDebits(rows) - SumCredits(rows)

get_account_balance(stored, account_id, as_of) ==
    LET rows == SelectSeq(stored.journal_entries,
                   LAMBDA row :
                      /\ row.account_id = account_id
                      /\ as_of # NoDate =>
                            /\ row.transaction_id \in DOMAIN stored.transactions
                            /\ stored.transactions[row.transaction_id].transaction_date
                                 <= as_of)
    IN  SumDebits(rows) - SumCredits(rows)

\* An empty category_id or account_type does not filter.
get_account_balances(accts, stored, as_of, category_id, account_type) ==
    LET selected == {a \in DOMAIN accts :
                       /\ category_id # NoCategory => accts[a].category_id = category_id
                       /\ account_type # "" => accts[a].type = account_type}
    IN  [a \in selected |-> get_account_balance(stored, a, as_of)]

RECURSIVE SumOver(_, _)
SumOver(f, S) ==
    IF S = {} THEN 0
    ELSE LET x == CHOOSE y \in S : TRUE IN f[x] + SumOver(f, S \ {x})

OfType(accts, account_type) == {a \in DOMAIN accts : accts[a].type = account_type}

fold_net_income_never(total_equity, net_income) == total_equity

fold_net_income(total_equity, net_income) ==
    IF net_income # 0 THEN total_equity + net_income ELSE total_equity

get_balance_sheet(accts, stored, as_of) ==
    LET balance == [a \in DOMAIN accts |-> get_account_balance(stored, a, as_of)]
        flipped == [a \in DOMAIN accts |-> 0 - balance[a]]
        assets == OfType(accts, "asset")
        liabilities == OfType(accts, "liability")
        equity == OfType(accts, "equity")
        total_assets == SumOver(balance, assets)
        total_liabilities == SumOver(flipped, liabilities)
        total_income == SumOver(flipped, OfType(accts, "income"))
        total_expenses == SumOver(balance, OfType(accts, "expense"))
        net_income == total_income - total_expenses
        total_equity == fold_net_income(SumOver(flipped, equity), net_income)
    IN  [assets |-> [a \in assets |-> Abs(balance[a])],
         liabilities |-> [a \in liabilities |-> Abs(balance[a])],
         equity |-> [a \in equity |-> Abs(balance[a])],
         retained_earnings |-> IF net_income # 0 THEN <<Abs(net_income)>> ELSE <<>>,
         total_assets |-> total_assets,
         total_liabilities |-> total_liabilities,
         total_equity |-> total_equity,
         net_income |-> net_income,
         total_liabilities_and_equity |-> total_liabilities + total_equity]

\* The journal entries of an account joined with their transactions and
\* taken from start_date on, whatever end_date is.
entries_from(stored, account_id, start_date, end_date) ==
    SelectSeq(stored.journal_entries,
        LAMBDA row :
           /\ row.account_id = account_id
           /\ row.transaction_id \in DOMAIN stored.transactions
           /\ stored.transactions[row.transaction_id].transaction_date >= start_date)

\* The journal entries of an account joined with their transactions and
\* filtered on transaction_date >= start_date and <= end_date.
entries_between(stored, account_id, start_date, end_date) ==
    SelectSeq(stored.journal_entries,
        LAMBDA row :
           /\ row.account_id = account_id
           /\ row.transaction_id \in DOMAIN stored.transactions
           /\ stored.transactions[row.transaction_id].transaction_date >= start_date
           /\ stored.transactions[row.transaction_id].transaction_date <= end_date)

\* income and expenses list the accounts in the order of the query; each is
\* kept as the balance listed for the account.
get_income_statement(accts, stored, start_date, end_date) ==
    LET income_accounts == OfType(accts, "income")
        expense_accounts == OfType(accts, "expense")
        total_debits == [a \in DOMAIN accts |->
            SumDebits(entries_between(stored, a, start_date, end_date))]
        total_credits == [a \in DOMAIN accts |->
            SumCredits(entries_between(stored, a, start_date, end_date))]
        income_balance == [a \in income_accounts |-> total_credits[a] - total_debits[a]]
        expense_balance == [a \in expense_accounts |-> total_debits[a] - total_credits[a]]
        income == {a \in income_accounts : income_balance[a] # 0}
        expenses == {a \in expense_accounts : expense_balance[a] # 0}
        total_income == SumOver(income_balance, income)
        total_expenses == SumOver(expense_balance, expenses)
    IN  [income |-> [a \in income |-> income_balance[a]],
         expenses |-> [a \in expenses |-> expense_balance[a]],
         total_income |-> total_income,
         total_expenses |-> total_expenses,
         net_income |-> total_income - total_expenses]

(***************************************************************************)
(* Import staging area.                                                    *)
(***************************************************************************)
create_import_source(sources, count, source_data) ==
    [ok |-> TRUE, id |-> count + 1,
     import_sources |-> sources @@ ((count + 1) :> source_data),
     source_count |-> count + 1]

\* foreign_keys tells whether the database enforces foreign keys: SQLite, the
\* default database, does not unless asked to, other databases do.
create_staged_transaction(accts, sources, stg, count, foreign_keys, transaction_data) ==
    IF foreign_keys
         /\ \/ transaction_data.source_id \notin DOMAIN sources
            \/ /\ transaction_data.account_id # NoAccount
               /\ transaction_data.account_id \notin DOMAIN accts
    THEN [ok |-> FALSE, error |-> "Error creating staged transaction", id |-> 0,
          staged |-> stg, staged_count |-> count]
    ELSE [ok |-> TRUE, error |-> "", id |-> count + 1,
          staged |-> stg @@ ((count + 1) :>
                        [source_id |-> transaction_data.source_id,
                         transaction_date |-> transaction_data.transaction_date,
                         description |-> transaction_data.description,
                         amount |-> to_numeric(transaction_data.amount),
                         status |-> "pending",
                         account_id |-> transaction_data.account_id,
                         error_message |-> "",
                         processed_at |-> NoDate]),
          staged_count |-> count + 1]

\* The two entries process_staged_transaction builds from a staged record.
staged_entries(row, counterpart_account_id) ==
    <<[account_id |-> row.account_id,
       debit_amount |-> IF row.amount > 0 THEN row.amount ELSE 0,
       credit_amount |-> IF row.amount < 0 THEN Abs(row.amount) ELSE 0],
      [account_id |-> counterpart_account_id,
       debit_amount |-> IF row.amount < 0 THEN Abs(row.amount) ELSE 0,
       credit_amount |-> IF row.amount > 0 THEN row.amount ELSE 0]>>

StagedResult(ok, found, message, id, tables, stg) ==
    [ok |-> ok, found |-> found, error |-> message, id |-> id, tables |-> tables,
     staged |-> stg]

post_staged(accts, stored, stg, now, staged_id, counterpart_account_id) ==
    LET row == stg[staged_id]
        r == create_transaction(accts, stored, now,
                [transaction_date |-> row.transaction_date,
                 description |-> row.description,
                 reference_number |-> NoReference,
                 status |-> "completed",
                 entries |-> staged_entries(row, counterpart_account_id)])
    IN  IF r.ok
        THEN StagedResult(TRUE, TRUE, "", r.id, r.tables,
                 [stg EXCEPT ![staged_id].status = "processed",
                             ![staged_id].processed_at = now])
        ELSE StagedResult(FALSE, TRUE, r.error, NoTxn, rollback(stored, r.tables),
                 [stg EXCEPT ![staged_id].status = "error",
                             ![staged_id].error_message = r.error])

process_staged_transaction_again(accts, stored, stg, now, staged_id, counterpart) ==
    IF staged_id \notin DOMAIN stg
    THEN StagedResult(FALSE, FALSE, "staged transaction not found", NoTxn, stored, stg)
    ELSE IF stg[staged_id].account_id = NoAccount
    THEN StagedResult(FALSE, TRUE, "no primary account assigned", NoTxn, stored, stg)
    ELSE post_staged(accts, stored, stg, now, staged_id, counterpart)

process_staged_transaction(accts, stored, stg, now, staged_id, counterpart_account_id) ==
    IF staged_id \notin DOMAIN stg
    THEN StagedResult(FALSE, FALSE, "staged transaction not found", NoTxn, stored, stg)
    ELSE IF stg[staged_id].account_id = NoAccount
    THEN StagedResult(FALSE, TRUE, "no primary account assigned", NoTxn, stored, stg)
    ELSE IF stg[staged_id].status = "processed"
    THEN StagedResult(FALSE, TRUE, "already processed", NoTxn, stored, stg)
    ELSE post_staged(accts, stored, stg, now, staged_id, counterpart_account_id)

BulkResult(successful, errors, tables, stg) ==
    [successful |-> successful, errors |-> errors, tables |-> tables, staged |-> stg]

RECURSIVE bulk_process_until_failure(_, _, _, _, _, _)
bulk_process_until_failure(accts, stored, stg, now, staged_ids, counterpart_account_id) ==
    IF staged_ids = <<>> THEN BulkResult(<<>>, <<>>, stored, stg)
    ELSE LET r == process_staged_transaction(accts, stored, stg, now, Head(staged_ids),
                                            counterpart_account_id)
             rest == bulk_process_until_failure(accts, r.tables, r.staged, now,
                                                Tail(staged_ids), counterpart_account_id)
         IN  IF r.ok
             THEN BulkResult(<<r.id>> \o rest.successful, rest.errors,
                             rest.tables, rest.staged)
             ELSE BulkResult(<<>>, <<[staged_id |-> Head(staged_ids), error |-> r.error]>>,
                             r.tables, r.staged)

\* The loop over staged_ids: successful holds the transactions created,
\* errors one record for each id that failed.
RECURSIVE bulk_process_staged_transactions(_, _, _, _, _, _)
bulk_process_staged_transactions(accts, stored, stg, now, staged_ids, counterpart) ==
    IF staged_ids = <<>> THEN BulkResult(<<>>, <<>>, stored, stg)
    ELSE LET r == process_staged_transaction(accts, stored, stg, now, Head(staged_ids),
                                            counterpart)
             rest == bulk_process_staged_transactions(accts, r.tables, r.staged, now,
                                                      Tail(staged_ids),
                                                      counterpart)
         IN  IF r.ok
             THEN BulkResult(<<r.id>> \o rest.successful, rest.errors,
                             rest.tables, rest.staged)
             ELSE BulkResult(rest.successful,
                             <<[staged_id |-> Head(staged_ids), error |-> r.error]>>
                                 \o rest.errors,
                             rest.tables, rest.staged)

(***************************************************************************)
(* Requests.                                                               *)
(***************************************************************************)
EntryData(account_ids, amounts) ==
    [account_id : account_ids, debit_amount : amounts, credit_amount : amounts]

EntryLists(entry_data, n) == UNION {[1..k -> entry_data] : k \in 0..n}

TransactionData(dates, descriptions, entry_lists) ==
    [transaction_date : dates, description : descriptions,
     reference_number : {NoReference}, status : {"completed"},
     entries : entry_lists]

NoBalances == <<>>

Stored == Tables(transactions, txn_count, journal_entries)

Balances(accts, stored) ==
    [a \in DOMAIN accts |-> get_account_balance(stored, a, NoDate)]

\* The call just served: its name and its outcome.  pre holds the account
\* balances before a successful create_transaction; the delete_transaction
\* that directly follows it on the same id keeps them and sets round_trip.
\* dropped tells that a create_transaction left out an entry of its request,
\* or that a bulk_process_staged_transactions went on after a failure: the
\* first of its two ids failed and the second was processed.
Call(op, r, pre, round_trip, dropped) ==
    [op |-> op, ok |-> r.ok, found |-> r.found, error |-> r.error,
     id |-> r.id, pre |-> pre, round_trip |-> round_trip, dropped |-> dropped]

\* A successful create_transaction that left out an entry of its request.
Dropped(transaction_data, r) ==
    r.ok /\ Len(RowsOf(r.tables.journal_entries, r.id)) < Len(transaction_data.entries)

Store(tables) ==
    /\ transactions' = tables.transactions
    /\ txn_count' = tables.txn_count
    /\ journal_entries' = tables.journal_entries

(***************************************************************************)
(* Sessions side by side.  Each request has its own session (get_db); what *)
(* a session has sent to the database is its own until it commits.         *)
(***************************************************************************)
Sessions == 1..MaxSessions

NoTables == Tables(<<>>, 0, <<>>)

\* A write under way: tables is the journal as the writing session sees it
\* after the statements it has sent, pending the journal after each
\* statement still to send.
Write(pc, op, id, tables, pending) ==
    [pc |-> pc, op |-> op, id |-> id, tables |-> tables, pending |-> pending]

NoWrite == Write("idle", "", NoTxn, NoTables, <<>>)

\* What a reading session sees of the journal while another session has a
\* database transaction open: the committed rows.
visible_uncommitted(committed, open) == open

visible(committed, open) == committed

\* The result of get_transaction / list_transactions, one SELECT joining the
\* headers with their entries, and whether a write was under way.
Seen(tables, concurrent) ==
    [transactions |-> tables.transactions, journal_entries |-> tables.journal_entries,
     concurrent |-> concurrent]

\* The statements of create_transaction: the header is flushed, then the
\* entries.
create_statements(stored, r) ==
    <<Tables(r.tables.transactions, r.tables.txn_count, stored.journal_entries),
      r.tables>>

\* The statements of update_transaction, all flushed by its commit: the
\* header is updated, the new entries are inserted, the old ones deleted.
update_statements(stored, transaction_id, r) ==
    <<Tables(r.tables.transactions, r.tables.txn_count, stored.journal_entries),
      Tables(r.tables.transactions, r.tables.txn_count,
             stored.journal_entries \o RowsOf(r.tables.journal_entries, transaction_id)),
      r.tables>>

\* The statements of delete_transaction: the entries are deleted, then the
\* header.
delete_statements(stored, transaction_id, r) ==
    <<Tables(stored.transactions, stored.txn_count,
             RowsNotOf(stored.journal_entries, transaction_id)),
      r.tables>>

\* The status the transaction endpoints answer with: 404 for a result of
\* None, 400 for every ValueError the service raises.
transaction_endpoint_status(r) ==
    IF r.ok THEN 200 ELSE IF ~r.found THEN 404 ELSE 400

\* The answer of a balance or report query: the query, its arguments and
\* what it returned.
Answer(op, account_id, start_date, as_of, response) ==
    [op |-> op, account_id |-> account_id, start_date |-> start_date, as_of |-> as_of,
     response |-> response]

\* A process_staged_transaction call under way: the staged record as the
\* session read it, and the transaction it created.
Processing(pc, staged_id, counterpart, row, id) ==
    [pc |-> pc, staged_id |-> staged_id, counterpart |-> counterpart,
     transaction_date |-> row.transaction_date, description |-> row.description,
     amount |-> row.amount, account_id |-> row.account_id, id |-> id]

NotProcessing ==
    Processing("idle", 0, NoAccount,
               [transaction_date |-> NoDate, description |-> "", amount |-> 0,
                account_id |-> NoAccount], NoTxn)

(***************************************************************************)
(* Actions: one per service method.                                        *)
(***************************************************************************)
Init ==
    /\ categories = <<>>
    /\ category_count = 0
    /\ accounts = <<>>
    /\ account_count = 0
    /\ transactions = <<>>
    /\ txn_count = 0
    /\ journal_entries = <<>>
    /\ import_sources = <<>>
    /\ source_count = 0
    /\ staged = <<>>
    /\ staged_count = 0
    /\ today = 1
    /\ last = Call("init", Done(NoTxn, <<>>), NoBalances, FALSE, FALSE)
    /\ writer = NoWrite
    /\ seen = Seen(NoTables, FALSE)
    /\ processing = [p \in Sessions |-> NotProcessing]
    /\ answer = Answer("", NoAccount, NoDate, NoDate, [balance |-> 0])

AccountData(category_ids, names, account_types, activity) ==
    [category_id : category_ids, name : names, type : account_types,
     description : {""}, is_active : activity]

CreateAccountUpTo(account_data, limit) ==
    /\ account_count < limit
    /\ \E data \in account_data :
         LET r == create_account(categories, accounts, account_count, data)
         IN  /\ accounts' = r.accounts
             /\ account_count' = r.account_count
             /\ last' = Call("create_account",
                             [ok |-> r.ok, found |-> TRUE, error |-> r.error, id |-> r.id],
                             NoBalances, FALSE, FALSE)
    /\ UNCHANGED sessions
    /\ UNCHANGED <<categories, category_count, transactions, txn_count,
                   journal_entries, staging, today>>

CreateAccount(account_types) ==
    CreateAccountUpTo(AccountData({NoCategory} \cup CategoryIds, {"Cash"},
                                  account_types, {TRUE}),
                      MaxAccounts)

UpdateAccount(account_data) ==
    /\ \E account_id \in AccountIds, data \in account_data :
         LET r == update_account(categories, accounts, account_id, data)
         IN  /\ accounts' = r.accounts
             /\ last' = Call("update_account",
                             [ok |-> r.ok, found |-> r.found, error |-> r.error,
                              id |-> account_id],
                             NoBalances, FALSE, FALSE)
    /\ UNCHANGED sessions
    /\ UNCHANGED <<categories, category_count, account_count, transactions, txn_count,
                   journal_entries, staging, today>>

CreateCategoryNamed(names) ==
    /\ category_count < MaxCategories
    /\ \E name \in names :
         LET r == create_account_category(categories, category_count,
                     [name |-> name, description |-> ""])
         IN  /\ categories' = r.categories
             /\ category_count' = r.category_count
             /\ last' = Call("create_account_category",
                             [ok |-> r.ok, found |-> TRUE, error |-> r.error, id |-> r.id],
                             NoBalances, FALSE, FALSE)
    /\ UNCHANGED sessions
    /\ UNCHANGED <<accounts, account_count, transactions, txn_count, journal_entries,
                   staging, today>>

CreateCategory == CreateCategoryNamed({"Current"})

UpdateCategory(names) ==
    /\ \E category_id \in CategoryIds, name \in names :
         LET r == update_account_category(categories, category_id,
                     [name |-> name, description |-> ""])
         IN  /\ categories' = r.categories
             /\ last' = Call("update_account_category",
                             [ok |-> r.ok, found |-> r.found, error |-> r.error,
                              id |-> category_id],
                             NoBalances, FALSE, FALSE)
    /\ UNCHANGED sessions
    /\ UNCHANGED <<category_count, accounts, account_count, transactions, txn_count,
                   journal_entries, staging, today>>

DeleteCategory ==
    /\ \E category_id \in CategoryIds :
         LET r == delete_account_category(categories, accounts, category_id)
         IN  /\ categories' = r.categories
             /\ last' = Call("delete_account_category",
                             [ok |-> r.ok, found |-> category_id \in DOMAIN categories,
                              error |-> r.error, id |-> category_id],
                             NoBalances, FALSE, FALSE)
    /\ UNCHANGED sessions
    /\ UNCHANGED <<category_count, accounts, account_count, transactions, txn_count,
                   journal_entries, staging, today>>

DeleteAccount ==
    /\ \E account_id \in AccountIds :
         LET r == delete_account(accounts, journal_entries, account_id)
         IN  /\ accounts' = r.accounts
             /\ last' = Call("delete_account",
                             [ok |-> r.ok, found |-> account_id \in DOMAIN accounts,
                              error |-> r.error, id |-> account_id],
                             NoBalances, FALSE, FALSE)
    /\ UNCHANGED sessions
    /\ UNCHANGED <<categories, category_count, account_count, transactions, txn_count,
                   journal_entries, staging, today>>

PostTransaction(requests, limit) ==
    /\ txn_count < limit
    /\ \E transaction_data \in requests :
         LET r == create_transaction(accounts, Stored, today, transaction_data)
         IN  /\ Store(r.tables)
             /\ last' = Call("create_transaction", r,
                             IF r.ok THEN Balances(accounts, Stored) ELSE NoBalances,
                             FALSE, Dropped(transaction_data, r))
    /\ UNCHANGED sessions
    /\ UNCHANGED <<categories, category_count, accounts, account_count, staging, today>>

UpdateTransaction(requests) ==
    /\ \E transaction_id \in TxnIds, transaction_data \in requests :
         LET r == update_transaction(accounts, Stored, transaction_id, transaction_data)
         IN  /\ Store(r.tables)
             /\ last' = Call("update_transaction",
                             [r EXCEPT !.id = transaction_id], NoBalances, FALSE, FALSE)
    /\ UNCHANGED sessions
    /\ UNCHANGED <<categories, category_count, accounts, account_count, staging, today>>

DeleteTransaction ==
    /\ \E transaction_id \in TxnIds :
         LET r == delete_transaction(Stored, transaction_id)
             round_trip == /\ last.op = "create_transaction"
                           /\ last.ok
                           /\ last.id = transaction_id
         IN  /\ Store(r.tables)
             /\ last' = Call("delete_transaction",
                             [r EXCEPT !.id = transaction_id],
                             IF round_trip THEN last.pre ELSE NoBalances, round_trip,
                             FALSE)
    /\ UNCHANGED sessions
    /\ UNCHANGED <<categories, category_count, accounts, account_count, staging, today>>

UpdateJournalEntry(entry_data) ==
    /\ \E entry_id \in 1..(Len(journal_entries) + 1), data \in entry_data :
         LET r == update_journal_entry(accounts, Stored, entry_id, data)
         IN  /\ Store(r.tables)
             /\ last' = Call("update_journal_entry",
                             [r EXCEPT !.id = entry_id], NoBalances, FALSE, FALSE)
    /\ UNCHANGED sessions
    /\ UNCHANGED <<categories, category_count, accounts, account_count, staging, today>>

DeleteJournalEntry ==
    /\ \E entry_id \in 1..(Len(journal_entries) + 1) :
         LET r == delete_journal_entry(Stored, entry_id)
         IN  /\ Store(r.tables)
             /\ last' = Call("delete_journal_entry",
                             [r EXCEPT !.id = entry_id], NoBalances, FALSE, FALSE)
    /\ UNCHANGED sessions
    /\ UNCHANGED <<categories, category_count, accounts, account_count, staging, today>>

\* A query that emptied the journal it read.
ReadAndDiscard ==
    /\ journal_entries' = <<>>
    /\ UNCHANGED <<writer, seen, processing>>
    /\ UNCHANGED <<categories, category_count, accounts, account_count, transactions,
                   txn_count, staging, today>>

\* The balance and report queries add nothing to their session, delete
\* nothing from it and never commit.
ReadOnly ==
    /\ UNCHANGED <<writer, seen, processing>>
    /\ UNCHANGED <<categories, category_count, accounts, account_count, transactions,
                   txn_count, journal_entries, staging, today>>

Answered(op, account_id) ==
    Call(op, [ok |-> TRUE, found |-> TRUE, error |-> "", id |-> account_id],
         NoBalances, FALSE, FALSE)

GetAccountBalance ==
    /\ \E account_id \in AccountIds, as_of \in Dates \cup {NoDate} :
         /\ answer' = Answer("get_account_balance", account_id, NoDate, as_of,
                [balance |-> get_account_balance(Stored, account_id, as_of)])
         /\ last' = Answered("get_account_balance", account_id)
    /\ ReadOnly

GetAccountBalances ==
    /\ \E as_of \in Dates \cup {NoDate}, account_type \in {"", "income"} :
         answer' = Answer("get_account_balances", NoAccount, NoDate, as_of,
            [balances |-> get_account_balances(accounts, Stored, as_of, NoCategory,
                                               account_type)])
    /\ last' = Answered("get_account_balances", NoAccount)
    /\ ReadOnly

GetBalanceSheet ==
    /\ \E as_of \in Dates \cup {NoDate} :
         answer' = Answer("get_balance_sheet", NoAccount, NoDate, as_of,
                          get_balance_sheet(accounts, Stored, as_of))
    /\ last' = Answered("get_balance_sheet", NoAccount)
    /\ ReadOnly

GetIncomeStatement ==
    /\ \E start_date \in Dates, end_date \in Dates :
         answer' = Answer("get_income_statement", NoAccount, start_date, end_date,
                          get_income_statement(accounts, Stored, start_date, end_date))
    /\ last' = Answered("get_income_statement", NoAccount)
    /\ ReadOnly

\* A write handler up to its first statement.  A call that fails or finds
\* nothing has sent no statement that stays: it is over in this step.
BeginWrite(op, id, r, statements) ==
    /\ writer.pc = "idle"
    /\ IF r.ok
       THEN /\ writer' = Write("open", op, id, Head(statements), Tail(statements))
            /\ UNCHANGED <<transactions, txn_count, journal_entries, last>>
       ELSE /\ Store(r.tables)
            /\ last' = Call(op, [r EXCEPT !.id = id], NoBalances, FALSE, FALSE)
            /\ UNCHANGED writer
    /\ UNCHANGED <<seen, processing, answer>>
    /\ UNCHANGED <<categories, category_count, accounts, account_count, staging, today>>

BeginPostTransaction(requests, limit) ==
    /\ txn_count < limit
    /\ \E transaction_data \in requests :
         LET r == create_transaction(accounts, Stored, today, transaction_data)
         IN  BeginWrite("create_transaction", r.id, r, create_statements(Stored, r))

BeginUpdateTransaction(requests) ==
    \E transaction_id \in TxnIds, transaction_data \in requests :
        LET r == update_transaction(accounts, Stored, transaction_id, transaction_data)
        IN  BeginWrite("update_transaction", transaction_id, r,
                       update_statements(Stored, transaction_id, r))

BeginDeleteTransaction ==
    \E transaction_id \in TxnIds :
        LET r == delete_transaction(Stored, transaction_id)
        IN  BeginWrite("delete_transaction", transaction_id, r,
                       delete_statements(Stored, transaction_id, r))

\* The writing session sends its next statement.
SendStatement ==
    /\ writer.pc = "open"
    /\ writer.pending # <<>>
    /\ writer' = [writer EXCEPT !.tables = Head(writer.pending),
                                !.pending = Tail(writer.pending)]
    /\ UNCHANGED <<seen, processing, answer>>
    /\ UNCHANGED <<categories, category_count, accounts, account_count, transactions,
                   txn_count, journal_entries, staging, today, last>>

\* self.db.commit() of the writing session.
CommitWrite ==
    /\ writer.pc = "open"
    /\ writer.pending = <<>>
    /\ Store(commit(Stored, writer.tables))
    /\ last' = Call(writer.op,
                    [ok |-> TRUE, found |-> TRUE, error |-> "", id |-> writer.id],
                    NoBalances, FALSE, FALSE)
    /\ writer' = NoWrite
    /\ UNCHANGED <<seen, processing, answer>>
    /\ UNCHANGED <<categories, category_count, accounts, account_count, staging, today>>

\* list_transactions in a session of its own.
ReadTransactions ==
    /\ seen' = Seen(visible(Stored, IF writer.pc = "open" THEN writer.tables ELSE Stored),
                    writer.pc = "open")
    /\ UNCHANGED <<writer, processing, answer>>
    /\ UNCHANGED <<categories, category_count, accounts, account_count, transactions,
                   txn_count, journal_entries, staging, today, last>>

\* process_staged_transaction in a session of its own, up to the checks on
\* the record it read.  A refused call is over in this step.
ReadStagedTransaction ==
    /\ \E p \in Sessions, staged_id \in StagedIds, counterpart \in AccountIds :
         /\ processing[p].pc \in {"idle", "done"}
         /\ IF \/ staged_id \notin DOMAIN staged
               \/ staged[staged_id].account_id = NoAccount
               \/ staged[staged_id].status = "processed"
            THEN LET r == process_staged_transaction(accounts, Stored, staged, today,
                                                    staged_id, counterpart)
                 IN  /\ last' = Call("process_staged_transaction",
                                     [ok |-> r.ok, found |-> r.found, error |-> r.error,
                                      id |-> staged_id],
                                     NoBalances, FALSE, FALSE)
                     /\ UNCHANGED processing
            ELSE /\ processing' = [processing EXCEPT ![p] =
                        Processing("read", staged_id, counterpart, staged[staged_id],
                                   NoTxn)]
                 /\ UNCHANGED last
    /\ UNCHANGED <<writer, seen, answer>>
    /\ UNCHANGED <<categories, category_count, accounts, account_count, transactions,
                   txn_count, journal_entries, staging, today>>

\* The create_transaction call of process_staged_transaction, which commits;
\* when it fails the except clause marks the record and the call is over.
PostStagedTransaction ==
    /\ txn_count < MaxTxns
    /\ \E p \in Sessions :
         /\ processing[p].pc = "read"
         /\ LET row == processing[p]
                r == create_transaction(accounts, Stored, today,
                        [transaction_date |-> row.transaction_date,
                         description |-> row.description,
                         reference_number |-> NoReference,
                         status |-> "completed",
                         entries |-> staged_entries(row, row.counterpart)])
            IN  IF r.ok
                THEN /\ Store(r.tables)
                     /\ processing' = [processing EXCEPT ![p].pc = "posted",
                                                         ![p].id = r.id]
                     /\ UNCHANGED <<staged, last>>
                ELSE /\ Store(rollback(Stored, r.tables))
                     /\ staged' = [staged EXCEPT
                                      ![row.staged_id].status = "error",
                                      ![row.staged_id].error_message = r.error]
                     /\ processing' = [processing EXCEPT ![p].pc = "done"]
                     /\ last' = Call("process_staged_transaction",
                                     [ok |-> FALSE, found |-> TRUE, error |-> r.error,
                                      id |-> row.staged_id],
                                     NoBalances, FALSE, FALSE)
    /\ UNCHANGED <<writer, seen, answer>>
    /\ UNCHANGED <<categories, category_count, accounts, account_count, import_sources,
                   source_count, staged_count, today>>

\* staged.status = PROCESSED and the commit that ends the call.
MarkStagedProcessed ==
    /\ \E p \in Sessions :
         /\ processing[p].pc = "posted"
         /\ staged' = [staged EXCEPT
                          ![processing[p].staged_id].status = "processed",
                          ![processing[p].staged_id].processed_at = today]
         /\ processing' = [processing EXCEPT ![p].pc = "done"]
         /\ last' = Call("process_staged_transaction",
                         [ok |-> TRUE, found |-> TRUE, error |-> "",
                          id |-> processing[p].staged_id],
                         NoBalances, FALSE, FALSE)
    /\ UNCHANGED <<writer, seen, answer>>
    /\ UNCHANGED <<categories, category_count, accounts, account_count, transactions,
                   txn_count, journal_entries, import_sources, source_count,
                   staged_count, today>>

\* The day datetime.now() falls on moves on.
AdvanceClock ==
    /\ today < MaxDate
    /\ today' = today + 1
    /\ UNCHANGED sessions
    /\ UNCHANGED <<categories, category_count, accounts, account_count, transactions,
                   txn_count, journal_entries, staging, last>>

CreateImportSource ==
    /\ source_count < MaxSources
    /\ LET r == create_import_source(import_sources, source_count,
                    [name |-> "Bank feed", type |-> "csv", is_active |-> TRUE])
       IN  /\ import_sources' = r.import_sources
           /\ source_count' = r.source_count
           /\ last' = Call("create_import_source",
                           [ok |-> r.ok, found |-> TRUE, error |-> "", id |-> r.id],
                           NoBalances, FALSE, FALSE)
    /\ UNCHANGED sessions
    /\ UNCHANGED <<categories, category_count, accounts, account_count, transactions,
                   txn_count, journal_entries, staged, staged_count, today>>

\* found tells whether the request names an existing import source.
StageTransaction(requests) ==
    /\ staged_count < MaxStaged
    /\ \E transaction_data \in requests, foreign_keys \in BOOLEAN :
         LET r == create_staged_transaction(accounts, import_sources, staged,
                     staged_count, foreign_keys, transaction_data)
         IN  /\ staged' = r.staged
             /\ staged_count' = r.staged_count
             /\ last' = Call("create_staged_transaction",
                             [ok |-> r.ok,
                              found |-> transaction_data.source_id \in DOMAIN import_sources,
                              error |-> r.error, id |-> r.id],
                             NoBalances, FALSE, FALSE)
    /\ UNCHANGED sessions
    /\ UNCHANGED <<categories, category_count, accounts, account_count, transactions,
                   txn_count, journal_entries, import_sources, source_count, today>>

ProcessStagedTransaction ==
    /\ \E staged_id \in StagedIds, counterpart_account_id \in AccountIds :
         LET r == process_staged_transaction(accounts, Stored, staged, today, staged_id,
                                            counterpart_account_id)
         IN  /\ Store(r.tables)
             /\ staged' = r.staged
             /\ last' = Call("process_staged_transaction",
                             [r EXCEPT !.id = staged_id], NoBalances, FALSE, FALSE)
    /\ UNCHANGED sessions
    /\ UNCHANGED <<categories, category_count, accounts, account_count, import_sources,
                   source_count, staged_count, today>>

BulkProcessStagedTransactions ==
    /\ \E staged_ids \in StagedIdLists, counterpart_account_id \in AccountIds :
         LET r == bulk_process_staged_transactions(accounts, Stored, staged, today,
                                                  staged_ids, counterpart_account_id)
         IN  /\ Store(r.tables)
             /\ staged' = r.staged
             /\ last' = Call("bulk_process_staged_transactions",
                             [ok |-> TRUE, found |-> TRUE, error |-> "",
                              id |-> Len(r.successful)],
                             NoBalances, FALSE,
                             /\ Len(staged_ids) = 2
                             /\ Len(r.successful) = 1
                             /\ Len(r.errors) = 1
                             /\ r.errors[1].staged_id = staged_ids[1]
                             /\ staged_ids[1] # staged_ids[2])
    /\ UNCHANGED sessions
    /\ UNCHANGED <<categories, category_count, accounts, account_count, import_sources,
                   source_count, staged_count, today>>

(***************************************************************************)
(* Specifications.                                                         *)
(***************************************************************************)
MaxUpdateEntries == 2

\* One entry of every shape the validation tells apart: without an account,
\* with both amounts zero, debited, credited, both-sided, negative.
EntryShapes ==
    {e \in EntryData({NoAccount} \cup AccountIds, Amounts) :
        /\ e.account_id = NoAccount => (e.debit_amount = Cent /\ e.credit_amount = 0)
        /\ e.debit_amount * e.credit_amount \in {0, Cent * Cent}
        /\ e.debit_amount + e.credit_amount >= 0 - Cent}

BalancedPair ==
    <<[account_id |-> 1, debit_amount |-> Cent, credit_amount |-> 0],
      [account_id |-> 2, debit_amount |-> 0, credit_amount |-> Cent]>>

PostRequests ==
    TransactionData({1}, {"Sale"}, EntryLists(EntryShapes, MaxEntries))
        \cup TransactionData(Dates \cup {NoDate}, Descriptions, {BalancedPair})

\* One-sided entries of 0.004, 0.006 and 0.01.
FineEntries ==
    {e \in EntryData(AccountIds, {0, 4, 6, Cent}) :
        (e.debit_amount = 0) # (e.credit_amount = 0)}

UpdateRequests ==
    TransactionData({1}, {"Sale"}, EntryLists(EntryShapes, MaxUpdateEntries))
        \cup TransactionData({1}, {"Sale"}, [1..2 -> FineEntries])
        \cup TransactionData(Dates, Descriptions, {BalancedPair})

\* Posting and deleting transactions over a chart of accounts.
Next ==
    \/ CreateAccount({"asset"})
    \/ DeleteAccount
    \/ PostTransaction(PostRequests, MaxTxns)
    \/ DeleteTransaction

Spec == Init /\ [][Next]_vars

\* Posting, updating and deleting one transaction.
NextUpdate ==
    \/ CreateAccount({"asset"})
    \/ PostTransaction(UpdateRequests, 1)
    \/ UpdateTransaction(UpdateRequests)
    \/ DeleteTransaction

SpecUpdate == Init /\ [][NextUpdate]_vars

\* Entries that debit or credit one unit.
PlainEntries ==
    {e \in EntryData(AccountIds, {0, Cent}) : e.debit_amount + e.credit_amount = Cent}

\* All transaction and journal-entry calls on one transaction.
JournalRequests == TransactionData({1}, {"Sale"}, EntryLists(PlainEntries, MaxUpdateEntries))

NextJournal ==
    \/ CreateAccount({"asset"})
    \/ PostTransaction(JournalRequests, 1)
    \/ UpdateTransaction(JournalRequests)
    \/ DeleteTransaction
    \/ UpdateJournalEntry(EntryShapes)
    \/ DeleteJournalEntry

SpecJournal == Init /\ [][NextJournal]_vars

DebitEntries == {e \in PlainEntries : e.debit_amount = Cent}

\* Accounts of every type, dated transactions between them, single journal
\* entries rewritten, and the reports.
ReportRequests == TransactionData(Dates, {"Sale"}, [1..2 -> PlainEntries])

NextReports ==
    \/ CreateAccount(AccountType)
    \/ DeleteAccount
    \/ PostTransaction(ReportRequests, MaxTxns)
    \/ UpdateJournalEntry(DebitEntries)
    \/ DeleteTransaction

SpecReports == Init /\ [][NextReports]_vars

\* The staging area: records staged with and without a primary account and
\* for positive, zero and negative amounts, processed one by one and in bulk.
StagedRequests ==
    [source_id : SourceIds, transaction_date : {1}, description : {"Sale"},
     amount : {0 - Cent, 0, Cent}, account_id : {NoAccount} \cup AccountIds]

NextStaging ==
    \/ CreateAccount({"asset"})
    \/ CreateImportSource
    \/ StageTransaction(StagedRequests)
    \/ ProcessStagedTransaction
    \/ BulkProcessStagedTransactions

SpecStaging == Init /\ [][NextStaging]_vars

\* A thousand and one accounts of one type, created one after the other and
\* never deleted.
MaxCodeAccounts == 1001

NextCodes ==
    CreateAccountUpTo(AccountData({NoCategory}, {"Cash"}, {"asset"}, {TRUE}),
                      MaxCodeAccounts)

SpecCodes == Init /\ [][NextCodes]_vars

\* The chart of accounts: categories and accounts of two types created,
\* changed and deleted.
AccountRequests ==
    AccountData({NoCategory} \cup CategoryIds, {"Cash", "Bank"},
                {"asset", "liability"}, BOOLEAN)

NextAccounts ==
    \/ CreateCategory
    \/ DeleteCategory
    \/ CreateAccount({"asset", "liability"})
    \/ UpdateAccount(AccountRequests)
    \/ DeleteAccount

SpecAccounts == Init /\ [][NextAccounts]_vars

\* Accounts created and deleted while one transaction is posted, rewritten,
\* and taken apart entry by entry.
NextLedger ==
    \/ CreateAccount({"asset"})
    \/ DeleteAccount
    \/ PostTransaction(JournalRequests, 1)
    \/ UpdateTransaction(JournalRequests)
    \/ DeleteTransaction
    \/ UpdateJournalEntry(PlainEntries)
    \/ DeleteJournalEntry

SpecLedger == Init /\ [][NextLedger]_vars

\* Balanced transactions dated on any day, posted and deleted while the
\* days go by.
NextReferences ==
    \/ CreateAccount({"asset"})
    \/ AdvanceClock
    \/ PostTransaction(TransactionData(Dates, {"Sale"}, {BalancedPair}), MaxTxns)
    \/ DeleteTransaction

SpecReferences == Init /\ [][NextReferences]_vars

\* A reader beside a writer: transactions posted, rewritten and deleted
\* statement by statement while list_transactions runs.
ReversedPair ==
    <<[account_id |-> 2, debit_amount |-> Cent, credit_amount |-> 0],
      [account_id |-> 1, debit_amount |-> 0, credit_amount |-> Cent]>>

ReaderRequests == TransactionData({1}, {"Sale"}, {BalancedPair, ReversedPair, <<>>})

NextReaders ==
    \/ CreateAccount({"asset"})
    \/ BeginPostTransaction(ReaderRequests, MaxTxns)
    \/ BeginUpdateTransaction(ReaderRequests)
    \/ BeginDeleteTransaction
    \/ SendStatement
    \/ CommitWrite
    \/ ReadTransactions

SpecReaders == Init /\ [][NextReaders]_vars

\* The balance and report queries over a ledger with accounts, a category,
\* transactions and staged records.
QueryRequests == TransactionData(Dates, {"Sale"}, {BalancedPair})

NextQueries ==
    \/ CreateCategory
    \/ CreateAccount({"asset", "income"})
    \/ PostTransaction(QueryRequests, 1)
    \/ DeleteTransaction
    \/ StageTransaction([source_id : SourceIds, transaction_date : {1},
                          description : {"Sale"}, amount : {Cent},
                          account_id : {NoAccount}])
    \/ GetAccountBalance
    \/ GetAccountBalances
    \/ GetBalanceSheet
    \/ GetIncomeStatement

SpecQueries == Init /\ [][NextQueries]_vars

\* Categories created, renamed and deleted, some of them owning an account.
CategoryNames == {"Current", "Fixed", "Long-term"}

NextCategories ==
    \/ CreateCategoryNamed(CategoryNames)
    \/ UpdateCategory(CategoryNames)
    \/ DeleteCategory
    \/ CreateAccountUpTo(AccountData(CategoryIds, {"Cash"}, {"asset"}, {TRUE}), 1)

SpecCategories == Init /\ [][NextCategories]_vars

\* Staged records processed by sessions side by side, each call split at
\* the read of the record, the commit of the transaction and the write of
\* the status.
NextProcessing ==
    \/ CreateAccount({"asset"})
    \/ CreateImportSource
    \/ StageTransaction([source_id : SourceIds, transaction_date : {1},
                          description : {"Sale"}, amount : {0, Cent},
                          account_id : {NoAccount, 1}])
    \/ ReadStagedTransaction
    \/ PostStagedTransaction
    \/ MarkStagedProcessed

SpecProcessing == Init /\ [][NextProcessing]_vars

(***************************************************************************)
(* Properties.                                                             *)
(***************************************************************************)
TxnRows(t) == RowsOf(journal_entries, t)

\* C1: every stored transaction has equal total debits and total credits
\* (their difference is below the tolerance of 0.01), whatever sequence of
\* create_transaction and update_transaction calls led to the state.
StoredTransactionsBalance ==
    \A t \in DOMAIN transactions :
        Abs(SumDebits(TxnRows(t)) - SumCredits(TxnRows(t))) < Tolerance

\* The entries the claim keeps: those with an account and a nonzero amount.
KeptEntries(entries) ==
    SelectSeq(entries, LAMBDA e :
        ~(e.account_id = NoAccount \/ (e.debit_amount = 0 /\ e.credit_amount = 0)))

\* The acceptance condition of postTransaction as the specification words it.
EntriesAcceptable(accts, entries) ==
    LET kept == KeptEntries(entries)
        n == Len(kept)
    IN  /\ n >= 2
        /\ \A i \in 1..n : kept[i].account_id \in DOMAIN accts
        /\ \A i, j \in 1..n : i # j => kept[i].account_id # kept[j].account_id
        /\ \A i \in 1..n : kept[i].debit_amount >= 0 /\ kept[i].credit_amount >= 0
        /\ \A i \in 1..n : ~(kept[i].debit_amount # 0 /\ kept[i].credit_amount # 0)
        /\ Abs(SumDebits(kept) - SumCredits(kept)) < Tolerance

PostAcceptable(accts, transaction_data) ==
    /\ transaction_data.description # ""
    /\ transaction_data.transaction_date # NoDate
    /\ EntriesAcceptable(accts, transaction_data.entries)

\* C2: in every reachable state and for every request, create_transaction
\* accepts the request exactly when its description is non-empty, its date is
\* present and its kept entries are at least two, on existing and pairwise
\* different accounts, non-negative, one-sided and balanced; an accepted
\* request stores exactly the kept entries, a rejected one fails.
PostAcceptsExactlyValidRequests ==
    \A transaction_data \in PostRequests :
        LET r == create_transaction(accounts, Stored, today, transaction_data)
        IN  /\ r.ok <=> PostAcceptable(accounts, transaction_data)
            /\ r.ok =>
                 /\ r.id \in DOMAIN r.tables.transactions
                 /\ RowsOf(r.tables.journal_entries, r.id)
                      = JournalRows(r.id, KeptEntries(transaction_data.entries))
                 /\ RowsNotOf(r.tables.journal_entries, r.id) = journal_entries
            /\ ~r.ok => r.error # ""

\* C2 witness: a request was accepted although one of its entries was left
\* out, and its two kept entries are stored.
PostedWithDroppedEntry ==
    /\ last.op = "create_transaction"
    /\ last.ok
    /\ last.dropped
    /\ Len(TxnRows(last.id)) = 2

EntryValidationErrors ==
    {"no journal entries", "account not found", "account used multiple times",
     "negative amounts", "both debited and credited", "at least two valid entries",
     "debits must equal credits"}

\* C3: a create_transaction that fails entry validation leaves the stored
\* transactions and journal entries as they were before the call.
FailedPostStoresNothing ==
    [][(last'.op = "create_transaction" /\ ~last'.ok
            /\ last'.error \in EntryValidationErrors)
         => (transactions' = transactions /\ journal_entries' = journal_entries)]_vars

\* C3 witness: an unbalanced request was rejected while a transaction was
\* stored.
UnbalancedPostRejected ==
    /\ last.op = "create_transaction"
    /\ ~last.ok
    /\ last.error = "debits must equal credits"
    /\ DOMAIN transactions # {}

\* C5: update_transaction accepts an entry set exactly when create_transaction
\* accepts it, for every stored transaction and every entry set.
UpdateValidatesLikePost ==
    \A t \in DOMAIN transactions : \A transaction_data \in UpdateRequests :
        update_transaction(accounts, Stored, t, transaction_data).ok
          <=> create_transaction(accounts, Stored, today,
                 [transaction_data EXCEPT !.description = "Sale",
                                          !.transaction_date = 1]).ok

\* C6: an update_transaction that fails leaves the transactions and the
\* journal entries as they were before the call.
FailedUpdateChangesNothing ==
    [][(last'.op = "update_transaction" /\ ~last'.ok)
         => (transactions' = transactions /\ journal_entries' = journal_entries)]_vars

\* C6 witness: an update of a stored transaction was rejected as unbalanced,
\* and the transaction still has its entries.
UnbalancedUpdateRejected ==
    /\ last.op = "update_transaction"
    /\ last.found
    /\ ~last.ok
    /\ last.error = "debits must equal credits"
    /\ Len(TxnRows(last.id)) >= 2

\* C7: no stored transaction has two journal entries on the same account.
NoAccountTwiceInTransaction ==
    \A t \in DOMAIN transactions :
        \A i, j \in 1..Len(TxnRows(t)) :
            i # j => TxnRows(t)[i].account_id # TxnRows(t)[j].account_id

\* C10: a successful delete_transaction removes the header and every journal
\* entry of the transaction and no other row; when it directly follows the
\* create_transaction of that transaction every account balance is back at
\* its value before the post; on an unknown id it fails and changes nothing.
DeleteUndoesPost ==
    [][last'.op = "delete_transaction" =>
         IF last'.found
         THEN /\ last'.ok
              /\ last'.id \notin DOMAIN transactions'
              /\ RowsOf(journal_entries', last'.id) = <<>>
              /\ journal_entries' = RowsNotOf(journal_entries, last'.id)
              /\ \A t \in DOMAIN transactions' : transactions'[t] = transactions[t]
              /\ (last.op = "create_transaction" /\ last.ok /\ last.id = last'.id)
                    => \A a \in DOMAIN accounts' :
                          get_account_balance(
                              Tables(transactions', txn_count', journal_entries'),
                              a, NoDate) = last.pre[a]
         ELSE /\ ~last'.ok
              /\ transactions' = transactions
              /\ journal_entries' = journal_entries]_vars

\* C10 witness: a transaction was posted next to an earlier one and deleted
\* right away.
PostedThenDeleted ==
    /\ last.op = "delete_transaction"
    /\ last.ok
    /\ last.round_trip
    /\ \E a \in DOMAIN last.pre : last.pre[a] # 0

\* C8: every stored journal entry has non-negative amounts and exactly one of
\* them nonzero.
EveryEntryOneSided ==
    \A i \in 1..Len(journal_entries) :
        /\ journal_entries[i].debit_amount >= 0
        /\ journal_entries[i].credit_amount >= 0
        /\ (journal_entries[i].debit_amount # 0) # (journal_entries[i].credit_amount # 0)

\* C9: every stored transaction owns at least two journal entries.
EveryTransactionHasTwoEntries ==
    \A t \in DOMAIN transactions : Len(TxnRows(t)) >= 2

AsOfDates == Dates \cup {NoDate}

\* C4: whenever every stored transaction is balanced, the balance sheet of
\* every as_of date, and the one without as_of, has total_assets equal to
\* total_liabilities_and_equity, net income being folded into total_equity.
BalanceSheetBalances ==
    StoredTransactionsBalance =>
        \A as_of \in AsOfDates :
            LET sheet == get_balance_sheet(accounts, Stored, as_of)
            IN  sheet.total_assets = sheet.total_liabilities_and_equity

\* C4 witness: a ledger with net income whose balance sheet as of the first
\* date differs from the one without as_of.
BalanceSheetWithNetIncome ==
    /\ StoredTransactionsBalance
    /\ get_balance_sheet(accounts, Stored, NoDate).net_income # 0
    /\ get_balance_sheet(accounts, Stored, NoDate).total_assets # 0
    /\ get_balance_sheet(accounts, Stored, 1).total_assets
         # get_balance_sheet(accounts, Stored, NoDate).total_assets

\* The positions of the journal entries of an account whose transaction is
\* dated as_of or earlier; all entries of the account without as_of.
EntriesOfAccount(account_id, as_of) ==
    {i \in 1..Len(journal_entries) :
        /\ journal_entries[i].account_id = account_id
        /\ \/ as_of = NoDate
           \/ transactions[journal_entries[i].transaction_id].transaction_date <= as_of}

\* C11: for every account and every as_of date (and without one),
\* get_account_balance is the sum of debit_amount minus credit_amount over
\* exactly the journal entries of the account whose transaction is dated
\* as_of or earlier, and 0 when there is no such entry.
AccountBalanceSumsEntries ==
    \A a \in AccountIds : \A as_of \in AsOfDates :
        LET net == [i \in 1..Len(journal_entries) |->
                      journal_entries[i].debit_amount - journal_entries[i].credit_amount]
            balance == get_account_balance(Stored, a, as_of)
        IN  /\ balance = SumOver(net, EntriesOfAccount(a, as_of))
            /\ EntriesOfAccount(a, as_of) = {} => balance = 0

\* C11 witness: an account with a nonzero balance as of the first date and a
\* different balance over all dates, next to an account without entries.
BalanceDependsOnAsOf ==
    \E a, b \in DOMAIN accounts :
        /\ get_account_balance(Stored, a, 1) # 0
        /\ get_account_balance(Stored, a, 1) # get_account_balance(Stored, a, NoDate)
        /\ EntriesOfAccount(b, NoDate) = {}

\* C18: when no account is deleted, every create_account call succeeds, and
\* the k-th account created with a type receives the code of that type's
\* prefix and the number k, which no other account has.
AccountCodesCountUp ==
    [][last'.op = "create_account" =>
         /\ last'.ok
         /\ LET a == last'.id
                k == Cardinality({b \in DOMAIN accounts' :
                                    accounts'[b].type = accounts'[a].type})
            IN  /\ accounts'[a].code
                      = [prefix |-> type_prefix(accounts'[a].type), number |-> k]
                /\ \A b \in DOMAIN accounts' \ {a} :
                      accounts'[b].code # accounts'[a].code]_vars

\* Every update_account request that names another type than the stored one
\* is refused and would leave the accounts as they are.
TypeChangeRefused ==
    \A a \in DOMAIN accounts : \A data \in AccountRequests :
        data.type # accounts[a].type =>
            LET r == update_account(categories, accounts, a, data)
            IN  ~r.ok /\ r.accounts = accounts

CodePrefixMatchesType ==
    \A a \in DOMAIN accounts : accounts[a].code.prefix = type_prefix(accounts[a].type)

\* C19: no step changes the type of an account; update_account with a type
\* different from the stored one fails and leaves every field of every
\* account unchanged; and the prefix of each account's code matches its type.
AccountTypeNeverChanges ==
    [][/\ \A a \in DOMAIN accounts \cap DOMAIN accounts' :
             accounts'[a].type = accounts[a].type
       /\ (last'.op = "update_account" /\ last'.error = "cannot change account type")
             => accounts' = accounts
       /\ TypeChangeRefused'
       /\ CodePrefixMatchesType']_vars

\* C19 witness: an update that tried to change the type of a stored account
\* was refused.
TypeChangeWasRefused ==
    /\ last.op = "update_account"
    /\ last.error = "cannot change account type"
    /\ last.id \in DOMAIN accounts
    /\ accounts[last.id].category_id # NoCategory

\* Deleting a category that owns accounts fails, names those accounts and
\* would leave the categories as they are.
OwnedCategoryNotDeleted ==
    \A c \in DOMAIN categories :
        LET owned == {a \in DOMAIN accounts : accounts[a].category_id = c}
            r == delete_account_category(categories, accounts, c)
        IN  owned # {} => (~r.ok /\ r.blocking = owned /\ r.categories = categories)

CategoryReferencesExist ==
    \A a \in DOMAIN accounts :
        accounts[a].category_id = NoCategory \/ accounts[a].category_id \in DOMAIN categories

\* C20: delete_account_category on a category that owns an account fails
\* with an error naming the owned accounts and leaves the category and the
\* accounts in place; every account's category_id is null or names an
\* existing category.
OwnedCategoriesStay ==
    [][/\ (last'.op = "delete_account_category" /\ ~last'.ok)
             => (categories' = categories /\ accounts' = accounts)
       /\ OwnedCategoryNotDeleted'
       /\ CategoryReferencesExist']_vars

\* C20 witness: the deletion of a category that owns two accounts was refused.
OwnedCategoryDeletionRefused ==
    /\ last.op = "delete_account_category"
    /\ last.error = "category has associated accounts"
    /\ Cardinality({a \in DOMAIN accounts : accounts[a].category_id = last.id}) = 2

\* Every process_staged_transaction call on a processed record is refused as
\* already processed and would change nothing.
ProcessedIsRefused ==
    \A s \in DOMAIN staged : \A c \in AccountIds :
        staged[s].status = "processed" =>
            LET r == process_staged_transaction(accounts, Stored, staged, today, s, c)
            IN  /\ ~r.ok
                /\ r.error = "already processed"
                /\ r.tables = Stored
                /\ r.staged = staged

\* C12: a successful process_staged_transaction creates one transaction and
\* leaves the record processed; a processed record stays processed; and
\* every later call on it fails as already processed and creates no
\* transaction.
StagedProcessedOnce ==
    [][/\ (last'.op = "process_staged_transaction" /\ last'.ok)
            => /\ staged'[last'.id].status = "processed"
               /\ Cardinality(DOMAIN transactions')
                    = Cardinality(DOMAIN transactions) + 1
       /\ \A s \in DOMAIN staged :
            staged[s].status = "processed" =>
                /\ s \in DOMAIN staged'
                /\ staged'[s].status = "processed"
       /\ (last'.op = "process_staged_transaction" /\ last'.found
              /\ staged[last'.id].status = "processed")
            => /\ ~last'.ok
               /\ last'.error = "already processed"
               /\ transactions' = transactions
               /\ journal_entries' = journal_entries
       /\ ProcessedIsRefused']_vars

\* C12 witness: a second call on a processed record was refused, and the one
\* transaction made from the record is the only one.
SecondProcessRefused ==
    /\ last.op = "process_staged_transaction"
    /\ last.error = "already processed"
    /\ Cardinality(DOMAIN transactions) = 1

\* C13: after a process_staged_transaction call on an existing record the
\* record is not pending: it is processed with processed_at set when the call
\* succeeded, and in error with the failure message when the call failed (a
\* record that was processed before the call aside).
StagedNeverLeftPending ==
    [][(last'.op = "process_staged_transaction" /\ last'.found)
         => /\ staged'[last'.id].status # "pending"
            /\ last'.ok
                 => /\ staged'[last'.id].status = "processed"
                    /\ staged'[last'.id].processed_at # NoDate
            /\ (~last'.ok /\ staged[last'.id].status # "processed")
                 => /\ staged'[last'.id].status = "error"
                    /\ staged'[last'.id].error_message = last'.error]_vars

\* C14: for every unprocessed staged record with an existing primary account
\* and every other existing account as counterpart,
\* process_staged_transaction posts one transaction of two entries: primary
\* debited and counterpart credited by amount when amount >= 0, primary
\* credited and counterpart debited by |amount| when amount < 0.
StagedPostsTwoEntries ==
    \A s \in DOMAIN staged : \A c \in DOMAIN accounts :
        (/\ staged[s].status # "processed"
         /\ staged[s].account_id \in DOMAIN accounts
         /\ c # staged[s].account_id)
          => LET r == process_staged_transaction(accounts, Stored, staged, today, s, c)
                 amount == staged[s].amount
             IN  /\ r.ok
                 /\ RowsNotOf(r.tables.journal_entries, r.id) = journal_entries
                 /\ RowsOf(r.tables.journal_entries, r.id)
                      = <<[transaction_id |-> r.id,
                           account_id |-> staged[s].account_id,
                           debit_amount |-> IF amount >= 0 THEN amount ELSE 0,
                           credit_amount |-> IF amount >= 0 THEN 0 ELSE 0 - amount],
                          [transaction_id |-> r.id,
                           account_id |-> c,
                           debit_amount |-> IF amount >= 0 THEN 0 ELSE 0 - amount,
                           credit_amount |-> IF amount >= 0 THEN amount ELSE 0]>>

StatusMoves ==
    {<<"pending", "processed">>, <<"pending", "error">>, <<"error", "error">>,
     <<"error", "processed">>}

\* C15: in every step each staged record keeps its status or moves it
\* pending -> processed, pending -> error, error -> error or
\* error -> processed; a processed record keeps its status; and a successful
\* call on a record in error leaves it processed.
StagedStatusMoves ==
    [][/\ \A s \in DOMAIN staged :
            /\ s \in DOMAIN staged'
            /\ \/ staged'[s].status = staged[s].status
               \/ <<staged[s].status, staged'[s].status>> \in StatusMoves
            /\ staged[s].status = "processed" => staged'[s].status = "processed"
       /\ (last'.op = "process_staged_transaction" /\ last'.ok
              /\ staged[last'.id].status = "error")
            => staged'[last'.id].status = "processed"]_vars

\* C15 witness: a record that had failed was processed by a later call.
RetriedAfterError ==
    /\ last.op = "process_staged_transaction"
    /\ last.ok
    /\ staged[last.id].status = "processed"
    /\ staged[last.id].error_message # ""

\* The staged ids processed by single calls, each in the state the call
\* before it left.
RECURSIVE OneByOne(_, _, _, _)
OneByOne(tables, stg, staged_ids, c) ==
    IF staged_ids = <<>> THEN [results |-> <<>>, tables |-> tables, staged |-> stg]
    ELSE LET r == process_staged_transaction(accounts, tables, stg, today,
                                            Head(staged_ids), c)
             rest == OneByOne(r.tables, r.staged, Tail(staged_ids), c)
         IN  [results |-> <<[staged_id |-> Head(staged_ids), ok |-> r.ok,
                             id |-> r.id, error |-> r.error]>> \o rest.results,
              tables |-> rest.tables, staged |-> rest.staged]

\* C16: for every list of staged ids, bulk_process_staged_transactions
\* returns as many successes and errors together as the list has ids; the
\* successes are the transactions, and the errors the ids and messages, of
\* single process_staged_transaction calls made in the order of the list,
\* each in the state left by the calls before it; and it leaves the state
\* those calls leave.
BulkProcessesEveryId ==
    \A staged_ids \in StagedIdLists : \A c \in AccountIds :
        LET r == bulk_process_staged_transactions(accounts, Stored, staged, today,
                                                  staged_ids, c)
            single == OneByOne(Stored, staged, staged_ids, c)
            succeeded == SelectSeq(single.results, LAMBDA x : x.ok)
            failed == SelectSeq(single.results, LAMBDA x : ~x.ok)
        IN  /\ Len(r.successful) + Len(r.errors) = Len(staged_ids)
            /\ r.successful = [i \in 1..Len(succeeded) |-> succeeded[i].id]
            /\ r.errors = [i \in 1..Len(failed) |->
                              [staged_id |-> failed[i].staged_id,
                               error |-> failed[i].error]]
            /\ r.tables = single.tables
            /\ r.staged = single.staged

\* C16 witness: a bulk call whose first id failed processed its second id.
BulkWentOnAfterFailure ==
    /\ last.op = "bulk_process_staged_transactions"
    /\ last.dropped
    /\ Cardinality(DOMAIN transactions) >= 1

\* C17: create_staged_transaction with a source_id naming no import source
\* fails and stores nothing; with an existing source it stores exactly one
\* new record, in status pending; and every stored staged record names an
\* existing import source.
StagedNeedsSource ==
    [][/\ last'.op = "create_staged_transaction"
            => IF last'.found
               THEN /\ last'.ok
                    /\ last'.id \notin DOMAIN staged
                    /\ DOMAIN staged' = DOMAIN staged \cup {last'.id}
                    /\ staged'[last'.id].status = "pending"
                    /\ \A s \in DOMAIN staged : staged'[s] = staged[s]
               ELSE /\ ~last'.ok
                    /\ staged' = staged
       /\ \A s \in DOMAIN staged' :
            staged'[s].source_id \in DOMAIN import_sources']_vars

\* C21: delete_account on an account that a journal entry references fails
\* with "has journal entries" and removes nothing, on an unreferenced account
\* removes exactly that account, and on an unknown id returns false and
\* changes nothing; and every journal entry references an existing account.
DeleteAccountKeepsReferencedAccounts ==
    [][/\ last'.op = "delete_account"
            => LET id == last'.id
                   referenced == \E i \in 1..Len(journal_entries) :
                                    journal_entries[i].account_id = id
               IN  IF id \notin DOMAIN accounts
                   THEN ~last'.ok /\ last'.error = "" /\ accounts' = accounts
                   ELSE IF referenced
                   THEN /\ ~last'.ok
                        /\ last'.error = "has journal entries"
                        /\ accounts' = accounts
                   ELSE /\ last'.ok
                        /\ accounts' = [a \in DOMAIN accounts \ {id} |-> accounts[a]]
       /\ \A i \in 1..Len(journal_entries') :
            journal_entries'[i].account_id \in DOMAIN accounts']_vars

\* C21 witness: the deletion of an account with journal entries was refused.
ReferencedAccountDeletionRefused ==
    /\ last.op = "delete_account"
    /\ ~last.ok
    /\ last.error = "has journal entries"
    /\ last.id \in DOMAIN accounts
    /\ \E i \in 1..Len(journal_entries) : journal_entries[i].account_id = last.id

\* C22: a transaction that create_transaction stores carries a reference
\* whose date is the transaction's own date and whose number is 1 when no
\* stored transaction has a reference of that day, and one more than the
\* highest such number otherwise.
ReferenceNamesTransactionDay ==
    [][\A t \in DOMAIN transactions' \ DOMAIN transactions :
          LET day == transactions'[t].transaction_date
              numbers == {transactions[u].reference_number.number :
                            u \in {v \in DOMAIN transactions :
                                     transactions[v].reference_number.date = day}}
              reference == transactions'[t].reference_number
          IN  /\ reference.date = day
              /\ reference.number =
                     IF numbers = {} THEN 1
                     ELSE 1 + CHOOSE n \in numbers : \A m \in numbers : m <= n]_vars

EntriesInPeriod(account_id, start_date, end_date) ==
    {i \in 1..Len(journal_entries) :
        /\ journal_entries[i].account_id = account_id
        /\ journal_entries[i].transaction_id \in DOMAIN transactions
        /\ start_date <= transactions[journal_entries[i].transaction_id].transaction_date
        /\ transactions[journal_entries[i].transaction_id].transaction_date <= end_date}

\* C25: for every start and end date, get_income_statement takes for each
\* income account credits minus debits, and for each expense account debits
\* minus credits, over exactly the journal entries dated from start to end;
\* it lists exactly the accounts whose activity is not zero, with that
\* activity; total_income and total_expenses are the sums of the listed
\* activities and net_income is total_income minus total_expenses.
IncomeStatementSumsPeriod ==
    \A start_date \in Dates : \A end_date \in Dates :
        LET net == [i \in 1..Len(journal_entries) |->
                      journal_entries[i].credit_amount - journal_entries[i].debit_amount]
            cost == [i \in 1..Len(journal_entries) |-> 0 - net[i]]
            activity == [a \in DOMAIN accounts |->
                IF accounts[a].type = "income"
                THEN SumOver(net, EntriesInPeriod(a, start_date, end_date))
                ELSE SumOver(cost, EntriesInPeriod(a, start_date, end_date))]
            listed_income == {a \in DOMAIN accounts :
                                accounts[a].type = "income" /\ activity[a] # 0}
            listed_expenses == {a \in DOMAIN accounts :
                                  accounts[a].type = "expense" /\ activity[a] # 0}
            statement == get_income_statement(accounts, Stored, start_date, end_date)
        IN  /\ statement.income = [a \in listed_income |-> activity[a]]
            /\ statement.expenses = [a \in listed_expenses |-> activity[a]]
            /\ statement.total_income = SumOver(activity, listed_income)
            /\ statement.total_expenses = SumOver(activity, listed_expenses)
            /\ statement.net_income = statement.total_income - statement.total_expenses

\* C25 witness: income and an expense in the second period only, and an
\* income account that the statement of the first period leaves out.
IncomeOfSecondPeriodOnly ==
    /\ get_income_statement(accounts, Stored, 1, 1).income = <<>>
    /\ get_income_statement(accounts, Stored, 2, 2).total_income > 0
    /\ get_income_statement(accounts, Stored, 2, 2).total_expenses > 0
    /\ get_income_statement(accounts, Stored, 1, 2).net_income = 0
    /\ \E a \in DOMAIN accounts : accounts[a].type = "income"

Queries ==
    {"get_account_balance", "get_account_balances", "get_balance_sheet",
     "get_income_statement"}

JournalEntryUpdateKeepsBalance ==
    [][(last'.op = "update_journal_entry" /\ last'.ok)
          => LET rows == RowsOf(journal_entries',
                                journal_entries'[last'.id].transaction_id)
             IN  SumDebits(rows) = SumCredits(rows)]_vars

\* C27: no two stored categories have the same name, whatever categories
\* are created, updated and deleted.
CategoryNamesUnique ==
    \A c \in DOMAIN categories : \A d \in DOMAIN categories :
        c # d => categories[c].name # categories[d].name

\* C28: a create_transaction or update_transaction that fails because an
\* entry names an account that does not exist is answered with 404, and one
\* that fails the validation of its entries with 400.
MissingAccountIsNotFound ==
    last.op \in {"create_transaction", "update_transaction"}
        => /\ last.error = "account not found"
                => transaction_endpoint_status(last) = 404
           /\ last.error \in {"debits must equal credits", "negative amounts",
                               "both debited and credited"}
                => transaction_endpoint_status(last) = 400

\* C29: a stored transaction keeps the reference_number create_transaction
\* gave it through every update_transaction, and stays completed when the
\* update supplies no other status.
ReferenceAndStatusStable ==
    [][\A t \in DOMAIN transactions \cap DOMAIN transactions' :
          /\ transactions'[t].reference_number = transactions[t].reference_number
          /\ transactions[t].status = "completed"
                => transactions'[t].status = "completed"]_vars

\* C30: of the process_staged_transaction calls that run side by side on one
\* staged record, at most one creates a transaction.
StagedPostedByOneSession ==
    \A p \in Sessions : \A q \in Sessions :
        (/\ p # q
         /\ processing[p].id # NoTxn
         /\ processing[q].id # NoTxn
         /\ processing[p].staged_id = processing[q].staged_id)
            => processing[p].id = processing[q].id

====
